---- MODULE Spec2Model ----
(***************************************************************************)
(* A model of synthesize.py: the Markdown-to-text reduction read_markdown, *)
(* the configuration loader, the voice-type probe and the two synthesis    *)
(* branches that main dispatches to.                                       *)
(*                                                                         *)
(* Text is a sequence of one-character strings, so that every rewrite of   *)
(* read_markdown and the markup escaping are computed character by         *)
(* character, as the regular expressions and html.escape compute them.     *)
(***************************************************************************)
EXTENDS Integers, Sequences, FiniteSets, TLC

VARIABLES
    pc,          \* where main is: "read", "check_text", "load_config",
                 \* "probe", "trial", "sdk", "exit"
    inputFile,   \* the content of the input file, None when there is no file
    argOutput,   \* the -o argument, None when it is not given
    env,         \* the environment load_config reads
    text,        \* the extracted text
    config,      \* the configuration record
    probe,       \* the outcome of the probe request
    isTrial,     \* what is_trial_voice returned
    netCalls,    \* the network calls made so far, in order
    trialBody,   \* the JSON body of the trial synthesis request
    response,    \* the outcome of the trial synthesis request
    ssml,        \* the markup of the expressive synthesis request
    sdkResult,   \* the result of the expressive synthesis request
    outputPath,  \* output_file as the branch taken computed it
    files,       \* the files the program wrote: records [path, data]
    console,     \* the diagnostics printed so far
    exitCode     \* the exit code of the process

vars == <<pc, inputFile, argOutput, env, text, config, probe, isTrial,
          netCalls, trialBody, response, ssml, sdkResult, outputPath,
          files, console, exitCode>>

(***************************************************************************)
(* Bounds of the model.                                                    *)
(***************************************************************************)
\* longest input document of Spec
MaxDoc == 2
\* longest link text, link target, alt text or fenced body of SpecMd
MaxPiece == 2
\* longest audio body a synthesis response carries
MaxAudio == 1

(***************************************************************************)
(* Sequences of characters.                                                *)
(***************************************************************************)
None == {}
Some(v) == {v}
Get(o) == CHOOSE v \in o : TRUE

Min(S) == CHOOSE x \in S : \A y \in S : x <= y
Max(S) == CHOOSE x \in S : \A y \in S : y <= x

NL == "\n"
\* the backquote, which a TLA+ string cannot hold, is written as this token
Backtick == "bq"
\* the double quote
DQuote == "dq"

\* the first position p >= i with s[p] = c, or 0
Find(s, c, i) ==
    LET P == {p \in i..Len(s) : s[p] = c}
    IN  IF P = {} THEN 0 ELSE Min(P)

\* the number of consecutive characters of C that start at position i
RunLen(s, i, C) ==
    LET stop == {p \in i..Len(s) : s[p] \notin C}
    IN  (IF stop = {} THEN Len(s) + 1 ELSE Min(stop)) - i

NoNewline(s, a, b) == \A p \in a..b : s[p] # NL

\* needle occurs in hay as a contiguous run (Python's `needle in hay`)
Contains(hay, needle) ==
    \E p \in 1..(Len(hay) - Len(needle) + 1) :
        SubSeq(hay, p, p + Len(needle) - 1) = needle

StartsWith(s, prefix) ==
    /\ Len(prefix) <= Len(s)
    /\ SubSeq(s, 1, Len(prefix)) = prefix

\* all sequences over A of a length in lo..hi
SeqsOf(A, lo, hi) == UNION {[1..n -> A] : n \in lo..hi}

\* str.lower, on the ASCII letters
UpperLetters ==
    <<"A", "B", "C", "D", "E", "F", "G", "H", "I", "J", "K", "L", "M",
      "N", "O", "P", "Q", "R", "S", "T", "U", "V", "W", "X", "Y", "Z">>

LowerLetters ==
    <<"a", "b", "c", "d", "e", "f", "g", "h", "i", "j", "k", "l", "m",
      "n", "o", "p", "q", "r", "s", "t", "u", "v", "w", "x", "y", "z">>

LowerChar(c) ==
    IF \E i \in DOMAIN UpperLetters : UpperLetters[i] = c
    THEN LowerLetters[CHOOSE i \in DOMAIN UpperLetters : UpperLetters[i] = c]
    ELSE c

Lower(s) == [k \in 1..Len(s) |-> LowerChar(s[k])]

\* the characters \s matches and str.strip removes
Whitespace == {" ", "\t", "\n", "\r"}

Strip(s) ==
    LET ink == {p \in 1..Len(s) : s[p] \notin Whitespace}
    IN  IF ink = {} THEN <<>> ELSE SubSeq(s, Min(ink), Max(ink))

(***************************************************************************)
(* read_markdown: one matcher per regular expression.  A matcher gives the *)
(* last position of the match that starts at position i, or 0 when the     *)
(* expression does not match there; no expression matches the empty text.  *)
(***************************************************************************)

\* !\[.*?\]\(.*?\)      both .*? are lazy and do not cross a line break
ImageClose(s, j) ==
    {k \in (j + 2)..Len(s) : s[k] = ")" /\ NoNewline(s, j + 2, k - 1)}

ImageMatchEnd(s, i) ==
    IF i + 1 <= Len(s) /\ s[i] = "!" /\ s[i + 1] = "["
    THEN LET J == {j \in (i + 2)..(Len(s) - 1) :
                      /\ s[j] = "]"
                      /\ s[j + 1] = "("
                      /\ NoNewline(s, i + 2, j - 1)
                      /\ ImageClose(s, j) # {}}
         IN  IF J = {} THEN 0 ELSE Min(ImageClose(s, Min(J)))
    ELSE 0

\* \[([^\]]+)\]\([^\)]+\)     the position of the "]" that ends group 1, or 0
LinkTextEnd(s, i) ==
    IF s[i] = "["
    THEN LET j == Find(s, "]", i + 1)
         IN  IF j > i + 1 /\ j + 1 <= Len(s) /\ s[j + 1] = "(" THEN j ELSE 0
    ELSE 0

LinkMatchEnd(s, i) ==
    LET j == LinkTextEnd(s, i)
    IN  IF j = 0 THEN 0
        ELSE LET k == Find(s, ")", j + 2)
             IN  IF k > j + 2 THEN k ELSE 0

LinkText(s, i) == SubSeq(s, i + 1, LinkTextEnd(s, i) - 1)

\* ^#{1,6}\s+   (MULTILINE)
AtLineStart(s, i) == i = 1 \/ s[i - 1] = NL

HeadingMatchEnd(s, i) ==
    IF AtLineStart(s, i)
    THEN LET h == RunLen(s, i, {"#"})
             w == RunLen(s, i + h, Whitespace)
         IN  IF h >= 1 /\ h <= 6 /\ w >= 1 THEN i + h + w - 1 ELSE 0
    ELSE 0

\* c{1,3}(.*?)c{1,3} for c = "*" or "_": the opening run is greedy, group 1
\* is lazy and does not cross a line break, the closing run is greedy.
\* When no later c closes the match, the opening run gives one c back and
\* group 1 is empty.
EmphasisOpen(s, i, c) ==
    LET r == RunLen(s, i, {c}) IN IF r > 3 THEN 3 ELSE r

EmphasisClose(s, i, c) ==
    LET n == EmphasisOpen(s, i, c)
        P == {p \in (i + n)..Len(s) : s[p] = c /\ NoNewline(s, i + n, p - 1)}
    IN  IF P = {} THEN 0 ELSE Min(P)

EmphasisMatchEnd(s, i, c) ==
    IF s[i] # c THEN 0
    ELSE LET n == EmphasisOpen(s, i, c)
             p == EmphasisClose(s, i, c)
         IN  IF p # 0 THEN p + EmphasisOpen(s, p, c) - 1
             ELSE IF n >= 2 THEN i + n - 1
             ELSE 0

EmphasisGroup(s, i, c) ==
    LET n == EmphasisOpen(s, i, c)
        p == EmphasisClose(s, i, c)
    IN  IF p # 0 THEN SubSeq(s, i + n, p - 1) ELSE <<>>

\* `([^`]+)`
InlineCodeMatchEnd(s, i) ==
    IF s[i] = Backtick
    THEN LET j == Find(s, Backtick, i + 1)
         IN  IF j > i + 1 THEN j ELSE 0
    ELSE 0

\* ```[\s\S]*?```
IsFence(s, p) ==
    /\ p + 2 <= Len(s)
    /\ s[p] = Backtick /\ s[p + 1] = Backtick /\ s[p + 2] = Backtick

CodeBlockMatchEnd(s, i) ==
    IF IsFence(s, i)
    THEN LET P == {p \in (i + 3)..Len(s) : IsFence(s, p)}
         IN  IF P = {} THEN 0 ELSE Min(P) + 2
    ELSE 0

\* ^[-*_]{3,}\s*$   (MULTILINE): $ holds at the end of the text and before
\* a line break, and the greedy \s* gives back down to the last line break
RuleMatchEnd(s, i) ==
    IF AtLineStart(s, i)
    THEN LET r == RunLen(s, i, {"-", "*", "_"})
             w == RunLen(s, i + r, Whitespace)
             breaks == {p \in (i + r)..(i + r + w - 1) : s[p] = NL}
         IN  IF r < 3 THEN 0
             ELSE IF i + r + w > Len(s) THEN Len(s)
             ELSE IF breaks # {} THEN Max(breaks) - 1
             ELSE 0
    ELSE 0

\* \n{3,}
BlankLinesMatchEnd(s, i) ==
    LET r == RunLen(s, i, {NL})
    IN  IF r >= 3 THEN i + r - 1 ELSE 0

MatchEnd(rule, s, i) ==
    CASE rule = "image"      -> ImageMatchEnd(s, i)
      [] rule = "link"       -> LinkMatchEnd(s, i)
      [] rule = "heading"    -> HeadingMatchEnd(s, i)
      [] rule = "star"       -> EmphasisMatchEnd(s, i, "*")
      [] rule = "underscore" -> EmphasisMatchEnd(s, i, "_")
      [] rule = "inlinecode" -> InlineCodeMatchEnd(s, i)
      [] rule = "codeblock"  -> CodeBlockMatchEnd(s, i)
      [] rule = "hrule"      -> RuleMatchEnd(s, i)
      [] rule = "blanklines" -> BlankLinesMatchEnd(s, i)

\* what the match at i..e is replaced by
Replacement(rule, s, i, e) ==
    CASE rule = "image"      -> <<>>
      [] rule = "link"       -> LinkText(s, i)
      [] rule = "heading"    -> <<>>
      [] rule = "star"       -> EmphasisGroup(s, i, "*")
      [] rule = "underscore" -> EmphasisGroup(s, i, "_")
      [] rule = "inlinecode" -> SubSeq(s, i + 1, e - 1)
      [] rule = "codeblock"  -> <<>>
      [] rule = "hrule"      -> <<>>
      [] rule = "blanklines" -> <<NL, NL>>

\* re.sub: the leftmost match is replaced and the scan goes on after it
RECURSIVE ReSub(_, _, _)
ReSub(rule, s, i) ==
    IF i > Len(s) THEN <<>>
    ELSE LET e == MatchEnd(rule, s, i)
         IN  IF e = 0
             THEN <<s[i]>> \o ReSub(rule, s, i + 1)
             ELSE Replacement(rule, s, i, e) \o ReSub(rule, s, e + 1)

\* the rewrites of read_markdown, in the order of the source
Rewrites ==
    <<"image", "link", "heading", "star", "underscore", "inlinecode",
      "codeblock", "hrule", "blanklines">>

RECURSIVE ApplyRewrites(_, _)
ApplyRewrites(s, n) ==
    IF n = 0 THEN s ELSE ReSub(Rewrites[n], ApplyRewrites(s, n - 1), 1)

read_markdown(content) == Strip(ApplyRewrites(content, Len(Rewrites)))

(***************************************************************************)
(* String constants of the program and of its inputs.                      *)
(***************************************************************************)
your_    == <<"y", "o", "u", "r", "_">>
wav      == <<"w", "a", "v">>
mp3      == <<"m", "p", "3">>
audio    == <<"a", "u", "d", "i", "o">>
output   == <<"o", "u", "t", "p", "u", "t">>
Cheerful     == <<"C", "h", "e", "e", "r", "f", "u", "l">>
Excited      == <<"E", "x", "c", "i", "t", "e", "d">>
Friendly     == <<"F", "r", "i", "e", "n", "d", "l", "y">>
Enthusiastic == <<"E", "n", "t", "h", "u", "s", "i", "a", "s", "t", "i", "c">>

(***************************************************************************)
(* load_config                                                             *)
(***************************************************************************)
Required == {"SPEECH_KEY", "SPEECH_REGION", "SPEAKER_PROFILE_ID"}

\* load_config without the placeholder test: only `not value`
MissingUnlessPlaceholder(value) ==
    \/ value = None
    \/ Get(value) = <<>>

\* not value or value.startswith("your_")
Missing(value) ==
    \/ value = None
    \/ Get(value) = <<>>
    \/ StartsWith(Get(value), your_)

ConfigOk(e) == \A key \in Required : ~Missing(e[key])

\* os.getenv(key, default)
getenv(e, key, default) == IF e[key] = None THEN default ELSE Get(e[key])

load_config(e) ==
    [SPEECH_KEY         |-> Get(e.SPEECH_KEY),
     SPEECH_REGION      |-> Get(e.SPEECH_REGION),
     SPEAKER_PROFILE_ID |-> Get(e.SPEAKER_PROFILE_ID),
     SPEECH_LANGUAGE    |-> getenv(e, "SPEECH_LANGUAGE", "en-US"),
     SPEECH_STYLE       |-> getenv(e, "SPEECH_STYLE", Cheerful),
     OUTPUT_FORMAT      |-> Lower(getenv(e, "OUTPUT_FORMAT", wav)),
     OUTPUT_FILENAME    |-> getenv(e, "OUTPUT_FILENAME", output)]

\* main: if args.output: config["OUTPUT_FILENAME"] = args.output
OverrideOutput(c, arg) ==
    IF arg # None /\ Get(arg) # <<>>
    THEN [c EXCEPT !.OUTPUT_FILENAME = Get(arg)]
    ELSE c

(***************************************************************************)
(* is_trial_voice and the dispatch of main                                 *)
(***************************************************************************)
\* an outcome of requests.get / requests.post: a response, or an exception
NetworkError == [kind |-> "error"]

\* is_trial_voice accepting every success status: r.ok
is_trial_voice_any_success(r) ==
    IF r.kind = "error" THEN FALSE ELSE r.status \in 200..299

is_trial_voice(r) ==
    IF r.kind = "error" THEN FALSE ELSE r.status = 200

\* main with the two branches swapped
DispatchSwapped(trial) == IF trial THEN "sdk" ELSE "trial"

\* main: synthesize_trial if is_trial_voice(config) else synthesize_sdk
Dispatch(trial) == IF trial THEN "trial" ELSE "sdk"

(***************************************************************************)
(* synthesize_trial                                                        *)
(***************************************************************************)
TrialOutputFile(c) == c.OUTPUT_FILENAME \o <<".">> \o c.OUTPUT_FORMAT

SCRIPT_ORDER_BY_LOCALE ==
    [l \in {"en-US", "en-GB", "en-AU", "en-IN", "es-ES", "es-MX", "fr-FR",
            "de-DE", "it-IT", "ja-JP", "ko-KR", "zh-CN", "pt-BR"} |->
        CASE l \in {"en-US", "en-GB", "en-AU", "en-IN"} -> 11
          [] l \in {"es-ES", "es-MX", "pt-BR"}          -> 13
          [] l \in {"fr-FR", "de-DE", "it-IT"}          -> 12
          [] l \in {"ja-JP", "ko-KR", "zh-CN"}          -> 14]

ScriptOrder(language) ==
    IF language \in DOMAIN SCRIPT_ORDER_BY_LOCALE
    THEN SCRIPT_ORDER_BY_LOCALE[language]
    ELSE 11

TrialRequestBody(c, t) ==
    [model         |-> <<c.SPEECH_REGION, c.SPEAKER_PROFILE_ID>>,
     locale        |-> c.SPEECH_LANGUAGE,
     scriptOrder   |-> ScriptOrder(c.SPEECH_LANGUAGE),
     text          |-> t,
     baseModelName |-> "DragonLatestNeural"]

\* response.headers.get("Content-Type", "")
ContentType(r) == IF r.contentType = None THEN <<>> ELSE Get(r.contentType)

\* synthesize_trial accepting on the status alone
TrialAcceptedOnStatus(r) == r.status = 200

\* response.status_code == 200 and "audio" in the content type
TrialAccepted(r) == r.status = 200 /\ Contains(ContentType(r), audio)

WriteFile(fs, path, data) ==
    {f \in fs : f.path # path} \cup {[path |-> path, data |-> data]}

(***************************************************************************)
(* synthesize_sdk                                                          *)
(***************************************************************************)
SdkOutputFile(c) ==
    IF c.OUTPUT_FORMAT = mp3
    THEN c.OUTPUT_FILENAME \o <<".", "m", "p", "3">>
    ELSE c.OUTPUT_FILENAME \o <<".", "w", "a", "v">>

\* html.escape(s), quote=True
EscapeChar(c) ==
    CASE c = "&"    -> <<"&", "a", "m", "p", ";">>
      [] c = "<"    -> <<"&", "l", "t", ";">>
      [] c = ">"    -> <<"&", "g", "t", ";">>
      [] c = DQuote -> <<"&", "q", "u", "o", "t", ";">>
      [] c = "'"    -> <<"&", "#", "x", "2", "7", ";">>
      [] OTHER      -> <<c>>

RECURSIVE html_escape(_)
html_escape(s) ==
    IF s = <<>> THEN <<>> ELSE EscapeChar(Head(s)) \o html_escape(Tail(s))

PROSODY_PRESETS ==
    [s \in {Cheerful, Excited, Friendly, Enthusiastic} |->
        CASE s = Cheerful     -> [rate |-> "+8%",  pitch |-> "+5%"]
          [] s = Excited      -> [rate |-> "+12%", pitch |-> "+8%"]
          [] s = Friendly     -> [rate |-> "+5%",  pitch |-> "+3%"]
          [] s = Enthusiastic -> [rate |-> "+10%", pitch |-> "+6%"]]

\* PROSODY_PRESETS.get(style, PROSODY_PRESETS["Cheerful"])
ProsodyWithDefault(style) ==
    IF style \in DOMAIN PROSODY_PRESETS
    THEN Some(PROSODY_PRESETS[style])
    ELSE Some(PROSODY_PRESETS[Cheerful])

\* PROSODY_PRESETS.get(style)
Prosody(style) ==
    IF style \in DOMAIN PROSODY_PRESETS
    THEN Some(PROSODY_PRESETS[style])
    ELSE None

\* The markup is a sequence of tokens: a fixed fragment of the f-string is
\* one token, a configured or extracted string contributes its characters.
Inner(c, t) ==
    LET prosody == Prosody(c.SPEECH_STYLE)
        lang    == <<"<lang xml:lang='", c.SPEECH_LANGUAGE, "'>">>
                       \o html_escape(t) \o <<"</lang>">>
    IN  IF prosody # None
        THEN <<"<prosody rate='", Get(prosody).rate, "' pitch='",
               Get(prosody).pitch, "'>">> \o lang \o <<"</prosody>">>
        ELSE lang

Ssml(c, t) ==
    <<"<speak version='1.0' xml:lang='", c.SPEECH_LANGUAGE,
      "' xmlns='http://www.w3.org/2001/10/synthesis' xmlns:mstts='http://www.w3.org/2001/mstts'>",
      "<voice name='DragonLatestNeural'>",
      "<mstts:ttsembedding speakerProfileId='">>
    \o html_escape(c.SPEAKER_PROFILE_ID)
    \o <<"'/>", "<mstts:express-as style='">>
    \o html_escape(c.SPEECH_STYLE)
    \o <<"'>">>
    \o Inner(c, t)
    \o <<"</mstts:express-as>", "</voice>", "</speak>">>

\* the exit code synthesize_sdk leaves the process with for a result
SdkExitCode(result) ==
    IF result.reason = "SynthesizingAudioCompleted" THEN 0
    ELSE IF result.reason = "Canceled" THEN 1
    ELSE 0

(***************************************************************************)
(* The inputs of a run.                                                    *)
(***************************************************************************)
DocAlphabet == {"a", " ", "#"}
Docs == SeqsOf(DocAlphabet, 0, MaxDoc)

\* SpecMd: documents that are one fenced code block, one link, one image.
\* A link text is "a", a link target "u" and an alt text "a", each followed
\* by up to MaxPiece characters of its alphabet.
FenceAlphabet == {"a", NL}
TextAlphabet  == {"a", "*", "_", Backtick}
AltAlphabet   == {"a", "(", NL}
UrlAlphabet   == {"u", "(", ")"}
Fence == <<Backtick, Backtick, Backtick>>

MkFenced(body)    == Fence \o body \o Fence
MkLink(t, url)    == <<"[">> \o t \o <<"]", "(">> \o url \o <<")">>
MkImage(alt, url) == <<"!">> \o MkLink(alt, url)

Pieces(first, A) == {<<first>> \o r : r \in SeqsOf(A, 0, MaxPiece)}

FencedDocs == {MkFenced(b) : b \in SeqsOf(FenceAlphabet, 0, MaxPiece)}
LinkDocs ==
    {MkLink(t, u) : t \in Pieces("a", TextAlphabet),
                    u \in Pieces("u", UrlAlphabet)}
ImageDocs ==
    {MkImage(a, u) : a \in Pieces("a", AltAlphabet),
                     u \in Pieces("u", UrlAlphabet)}
MdDocs == FencedDocs \cup LinkDocs \cup ImageDocs

key1     == <<"k">>
region1  == <<"r">>
profile1 == <<"p", "&">>

RequiredChoices ==
    [SPEECH_KEY         : {None, Some(<<>>), Some(your_ \o <<"k">>), Some(key1)},
     SPEECH_REGION      : {None, Some(your_), Some(region1)},
     SPEAKER_PROFILE_ID : {None, Some(<<"y", "o", "u", "r">>), Some(profile1)}]

OptionalChoices ==
    [SPEECH_LANGUAGE : {None, Some("es-ES")},
     SPEECH_STYLE    : {None, Some(Cheerful), Some(Excited), Some(Friendly),
                        Some(Enthusiastic),
                        Some(<<"c", "h", "e", "e", "r", "f", "u", "l">>),
                        Some(<<"a", "'", "<", "&", DQuote, ">">>)},
     OUTPUT_FORMAT   : {None, Some(<<"M", "P", "3">>), Some(wav),
                        Some(<<"o", "g", "g">>)},
     OUTPUT_FILENAME : {None, Some(<<"o">>)}]

GoodRequired ==
    [SPEECH_KEY |-> Some(key1), SPEECH_REGION |-> Some(region1),
     SPEAKER_PROFILE_ID |-> Some(profile1)]

DefaultOptional ==
    [SPEECH_LANGUAGE |-> None, SPEECH_STYLE |-> None, OUTPUT_FORMAT |-> None,
     OUTPUT_FILENAME |-> None]

\* every setting of the required keys with the optional ones unset, and
\* every setting of the optional keys with the required ones filled in
Envs ==
    {r @@ DefaultOptional : r \in RequiredChoices}
        \cup {GoodRequired @@ o : o \in OptionalChoices}

ProbeOutcomes ==
    {NetworkError} \cup [kind : {"response"}, status : {200, 204, 404}]

AudioBodies == SeqsOf({0, 255}, 0, MaxAudio)

ContentTypes ==
    {None,
     Some(<<"a", "u", "d", "i", "o", "/", "w", "a", "v">>),
     Some(<<"a", "p", "p", "l", "i", "c", "a", "t", "i", "o", "n", "/",
            "j", "s", "o", "n">>),
     Some(<<"t", "e", "x", "t", "/", "x", "-", "a", "u", "d", "i", "o">>)}

TrialOutcomes ==
    {NetworkError}
        \cup [kind : {"response"}, status : {200, 500},
              contentType : ContentTypes, content : AudioBodies]

\* the members of speechsdk.ResultReason a synthesis result may carry, and
\* of speechsdk.CancellationReason
SdkResults ==
    [reason : {"SynthesizingAudioCompleted", "SynthesizingAudioStarted"},
     cancellation : {"none"}]
        \cup [reason : {"Canceled"},
              cancellation : {"Error", "CancelledByUser"}]

(***************************************************************************)
(* main                                                                    *)
(***************************************************************************)
\* sys.exit(code), and the return of main with code 0
Exit(code) == pc' = "exit" /\ exitCode' = Some(code)

Say(lines) == console' = console \o lines

InitWith(docs, envs, outputs) ==
    /\ pc = "read"
    /\ inputFile \in {None} \cup {Some(d) : d \in docs}
    /\ argOutput \in outputs
    /\ env \in envs
    /\ text = None
    /\ config = None
    /\ probe = None
    /\ isTrial = None
    /\ netCalls = <<>>
    /\ trialBody = None
    /\ response = None
    /\ ssml = None
    /\ sdkResult = None
    /\ outputPath = None
    /\ files = {}
    /\ console = <<>>
    /\ exitCode = None

Init == InitWith(Docs, Envs, {None, Some(<<"d">>)})

InitMd == InitWith(MdDocs, {GoodRequired @@ DefaultOptional}, {None})

\* text = read_markdown(input_file)
ReadMarkdown ==
    /\ pc = "read"
    /\ IF inputFile = None
       THEN /\ Say(<<"Reading text from", "ERROR: Input file not found">>)
            /\ Exit(1)
            /\ UNCHANGED text
       ELSE /\ text' = Some(read_markdown(Get(inputFile)))
            /\ Say(<<"Reading text from">>)
            /\ pc' = "check_text"
            /\ UNCHANGED exitCode
    /\ UNCHANGED <<inputFile, argOutput, env, config, probe, isTrial,
                   netCalls, trialBody, response, ssml, sdkResult,
                   outputPath, files>>

\* if not text: sys.exit(1)
CheckText ==
    /\ pc = "check_text"
    /\ IF Get(text) = <<>>
       THEN /\ Say(<<"ERROR: No text found in the input file">>)
            /\ Exit(1)
       ELSE /\ Say(<<"Text to synthesize">>)
            /\ pc' = "load_config"
            /\ UNCHANGED exitCode
    /\ UNCHANGED <<inputFile, argOutput, env, text, config, probe, isTrial,
                   netCalls, trialBody, response, ssml, sdkResult,
                   outputPath, files>>

\* config = load_config(), then the -o override
LoadConfig ==
    /\ pc = "load_config"
    /\ IF ConfigOk(env)
       THEN /\ config' = Some(OverrideOutput(load_config(env), argOutput))
            /\ pc' = "probe"
            /\ UNCHANGED <<console, exitCode>>
       ELSE /\ Say(<<"ERROR: key is not set in .env file">>)
            /\ Exit(1)
            /\ UNCHANGED config
    /\ UNCHANGED <<inputFile, argOutput, env, text, probe, isTrial,
                   netCalls, trialBody, response, ssml, sdkResult,
                   outputPath, files>>

\* if is_trial_voice(config): ... else: ...
Probe ==
    /\ pc = "probe"
    /\ \E r \in ProbeOutcomes :
          /\ probe' = Some(r)
          /\ netCalls' = Append(netCalls, "probe")
          /\ isTrial' = Some(is_trial_voice(r))
          /\ pc' = Dispatch(is_trial_voice(r))
          /\ Say(<<"Checking voice type",
                   IF Dispatch(is_trial_voice(r)) = "trial"
                   THEN "Detected: Trial personal voice"
                   ELSE "Detected: Full personal voice (using SDK)">>)
    /\ UNCHANGED <<inputFile, argOutput, env, text, config, trialBody,
                   response, ssml, sdkResult, outputPath, files, exitCode>>

\* synthesize_trial(config, text); an exception of requests.post is not
\* caught, and ends the process with a traceback and exit code 1
SynthesizeTrial ==
    /\ pc = "trial"
    /\ outputPath' = Some(TrialOutputFile(Get(config)))
    /\ trialBody' = Some(TrialRequestBody(Get(config), Get(text)))
    /\ netCalls' = Append(netCalls, "trial")
    /\ \E r \in TrialOutcomes :
          /\ response' = Some(r)
          /\ IF r.kind = "error"
             THEN /\ Say(<<"Synthesizing with Personal Voice (trial API)",
                           "Traceback">>)
                  /\ Exit(1)
                  /\ UNCHANGED files
             ELSE IF TrialAccepted(r)
             THEN /\ files' = WriteFile(files, TrialOutputFile(Get(config)),
                                        r.content)
                  /\ Say(<<"Synthesizing with Personal Voice (trial API)",
                           "SUCCESS: Audio saved">>)
                  /\ Exit(0)
             ELSE /\ Say(<<"Synthesizing with Personal Voice (trial API)",
                           "ERROR: Synthesis failed">>)
                  /\ Exit(1)
                  /\ UNCHANGED files
    /\ UNCHANGED <<inputFile, argOutput, env, text, config, probe, isTrial,
                   ssml, sdkResult>>

\* synthesize_sdk(config, text); the SDK, not the program, writes the audio
SynthesizeSdk ==
    /\ pc = "sdk"
    /\ \E available \in BOOLEAN :
          IF ~available
          THEN /\ Say(<<"Azure Speech SDK not found">>)
               /\ Exit(1)
               /\ UNCHANGED <<outputPath, ssml, netCalls, sdkResult>>
          ELSE \E result \in SdkResults :
               /\ outputPath' = Some(SdkOutputFile(Get(config)))
               /\ ssml' = Some(Ssml(Get(config), Get(text)))
               /\ netCalls' = Append(netCalls, "sdk")
               /\ sdkResult' = Some(result)
               /\ Say(<<"Synthesizing with Personal Voice (SDK)">>
                        \o (IF result.reason = "SynthesizingAudioCompleted"
                            THEN <<"SUCCESS: Audio saved">>
                            ELSE IF result.reason = "Canceled"
                            THEN <<"CANCELED">>
                            ELSE <<>>))
               /\ Exit(SdkExitCode(result))
    /\ UNCHANGED <<inputFile, argOutput, env, text, config, probe, isTrial,
                   trialBody, response, files>>

Next ==
    \/ ReadMarkdown
    \/ CheckText
    \/ LoadConfig
    \/ Probe
    \/ SynthesizeTrial
    \/ SynthesizeSdk

Spec == Init /\ [][Next]_vars

SpecMd == InitMd /\ [][Next]_vars

(***************************************************************************)
(* Properties.                                                             *)
(***************************************************************************)
Said(line) == \E i \in DOMAIN console : console[i] = line

\* the synthesis requests among the network calls
SynthCalls == SelectSeq(netCalls, LAMBDA c : c # "probe")

\* a required key is set, not empty and not a placeholder
RequiredPresent ==
    \A key \in Required :
        /\ env[key] # None
        /\ Len(Get(env[key])) > 0
        /\ ~(/\ Len(Get(env[key])) >= 5
             /\ SubSeq(Get(env[key]), 1, 5) = <<"y", "o", "u", "r", "_">>)

\* C1: a network call is made, and the probe is reached, only when the
\* input file exists, the extracted text is not empty and the three
\* required keys are set to non-placeholder values; a run in which one of
\* these fails ends with exit code 1 and without any network call.
C1_NoNetworkCallBeforeValidation ==
    /\ (netCalls # <<>> \/ pc \in {"probe", "trial", "sdk"}) =>
          /\ inputFile # None
          /\ text # None
          /\ Get(text) # <<>>
          /\ RequiredPresent
    /\ (/\ pc = "exit"
        /\ \/ inputFile = None
           \/ (text # None /\ Get(text) = <<>>)
           \/ ~RequiredPresent) =>
          /\ exitCode = Some(1)
          /\ netCalls = <<>>

\* a run with a text to speak that stops at a placeholder SPEECH_KEY
C1_Witness ==
    /\ pc = "exit"
    /\ text # None
    /\ Get(text) # <<>>
    /\ env.SPEECH_KEY = Some(your_ \o <<"k">>)
    /\ exitCode = Some(1)
    /\ netCalls = <<>>

ProbeSucceeded2xx ==
    Get(probe).kind = "response" /\ Get(probe).status \in 200..299

ProbeIs200 ==
    Get(probe).kind = "response" /\ Get(probe).status = 200

\* what follows a probe that is_trial_voice answers with false: main goes
\* on into the expressive branch, and the trial branch is never entered
ExpressiveBranchTaken ==
    /\ pc \in {"sdk", "exit"}
    /\ Said("Detected: Full personal voice (using SDK)")
    /\ ~Said("Detected: Trial personal voice")
    /\ \A i \in DOMAIN netCalls : netCalls[i] # "trial"
    /\ trialBody = None
    /\ response = None

\* C2 as stated: is_trial_voice returns true exactly for an HTTP success
\* status (2xx), false for any other status or a network failure, and a
\* failing probe leads main to the expressive branch.
C2_TrueOnAnySuccessStatus ==
    isTrial # None =>
        /\ Get(isTrial) = ProbeSucceeded2xx
        /\ ~ProbeSucceeded2xx => ExpressiveBranchTaken

\* C2, amended: is_trial_voice returns true exactly when the probe response
\* has status 200, and false for every other status (other 2xx statuses
\* included) and for a network failure, without ending the run; a probe
\* that fails or returns anything but 200 leads main to the expressive
\* branch, never the trial branch.
C2_TrueOnlyOn200 ==
    isTrial # None =>
        /\ Get(isTrial) = ProbeIs200
        /\ ~ProbeIs200 => ExpressiveBranchTaken

\* the probe failed on the network and main is in the expressive branch
C2_Witness ==
    /\ probe = Some(NetworkError)
    /\ isTrial = Some(FALSE)
    /\ pc = "sdk"

\* the synthesis request, when one was sent, is the only one, follows the
\* probe and is the one the probe result selects
SelectedRequestOnly ==
    /\ Len(SynthCalls) <= 1
    /\ SynthCalls # <<>> =>
          /\ isTrial # None
          /\ netCalls = <<"probe", IF Get(isTrial) THEN "trial" ELSE "sdk">>

\* C3 as stated: every run that reaches the dispatcher sends exactly one
\* synthesis request, after the probe, the one the probe result selects.
C3_ExactlyOneRequest ==
    /\ SelectedRequestOnly
    /\ (pc = "exit" /\ probe # None) => Len(SynthCalls) = 1

\* C3, amended: a run that reaches the dispatcher sends at most one
\* synthesis request, after the probe: the trial request if the probe
\* result is true, otherwise the expressive request; never both, and none a
\* second time.  It sends exactly one unless the expressive branch finds
\* the Speech SDK missing, in which case it sends none.
C3_AtMostOneRequest ==
    /\ SelectedRequestOnly
    /\ (pc = "exit" /\ probe # None) =>
          IF Len(SynthCalls) = 1
          THEN ~Said("Azure Speech SDK not found")
          ELSE isTrial = Some(FALSE) /\ Said("Azure Speech SDK not found")

\* an expressive request that was cancelled: the run ends, nothing more sent
C3_Witness ==
    /\ pc = "exit"
    /\ netCalls = <<"probe", "sdk">>
    /\ sdkResult # None
    /\ Get(sdkResult).reason = "Canceled"
    /\ exitCode = Some(1)

TrialSucceeded ==
    /\ response # None
    /\ Get(response).kind = "response"
    /\ files = {[path |-> Get(outputPath), data |-> Get(response).content]}

SdkCompleted ==
    /\ sdkResult # None
    /\ Get(sdkResult).reason = "SynthesizingAudioCompleted"

\* C4: a run exits with code 0 only when synthesis succeeded (the trial
\* response was accepted and the audio written, or the expressive result is
\* 'completed'), and with code 1 on every other terminal outcome.
C4_ExitCodeZeroOnlyOnSuccess ==
    pc = "exit" =>
        /\ exitCode \in {Some(0), Some(1)}
        /\ exitCode = Some(0) <=> (TrialSucceeded \/ SdkCompleted)

\* a content type whose media type is audio/...
IsAudioMediaType(ct) ==
    ct # None /\ StartsWith(Get(ct), <<"a", "u", "d", "i", "o", "/">>)

MentionsAudio(ct) ==
    ct # None /\ Contains(Get(ct), <<"a", "u", "d", "i", "o">>)

\* the trial branch wrote the response body, and nothing else, to its
\* output path when `accepted`, and wrote nothing otherwise
TrialWrites(accepted) ==
    IF accepted
    THEN files = {[path |-> Get(outputPath), data |-> Get(response).content]}
    ELSE files = {}

\* C5 as stated: the trial branch writes the output file, with the response
\* body byte for byte, if and only if the response has status 200 and an
\* audio content type.
C5_WrittenIffAudioMediaType ==
    (response # None /\ Get(response).kind = "response") =>
        TrialWrites(/\ Get(response).status = 200
                    /\ IsAudioMediaType(Get(response).contentType))

\* C5, amended: the trial branch writes the output file, with the response
\* body byte for byte, if and only if the response has status 200 and a
\* Content-Type header whose value contains "audio"; for any other
\* response (a status other than 200, a header without "audio", no header)
\* and for a failed request no file is created or modified.
C5_WrittenIffContentTypeMentionsAudio ==
    response # None =>
        TrialWrites(/\ Get(response).kind = "response"
                    /\ Get(response).status = 200
                    /\ MentionsAudio(Get(response).contentType))

\* a 200 audio/wav response whose one byte is in the output file
C5_Witness ==
    /\ response # None
    /\ Get(response).kind = "response"
    /\ Get(response).status = 200
    /\ IsAudioMediaType(Get(response).contentType)
    /\ Get(response).content = <<255>>
    /\ files = {[path |-> Get(outputPath), data |-> <<255>>]}

\* C6: for every configuration the trial branch and the expressive branch
\* compute the same output path, the base filename followed by .wav or .mp3.
C6_SameOutputPath ==
    config # None =>
        /\ TrialOutputFile(Get(config)) = SdkOutputFile(Get(config))
        /\ \E ext \in {wav, mp3} :
              TrialOutputFile(Get(config))
                  = Get(config).OUTPUT_FILENAME \o <<".">> \o ext

\* a document that is one fenced code block
IsFencedOnly(d) ==
    /\ Len(d) >= 6
    /\ SubSeq(d, 1, 3) = Fence
    /\ SubSeq(d, Len(d) - 2, Len(d)) = Fence

\* C7: for an input file that is one fenced code block read_markdown
\* returns the empty text, and main ends with exit code 1 without a probe
\* or a synthesis request.
C7_FencedBlockIsEmptyText ==
    (inputFile # None /\ IsFencedOnly(Get(inputFile)) /\ text # None) =>
        /\ Get(text) = <<>>
        /\ pc \in {"check_text", "exit"}
        /\ netCalls = <<>>
        /\ pc = "exit" => exitCode = Some(1)

HasCharOf(s, C) == \E i \in DOMAIN s : s[i] \in C

Chars(s) == {s[i] : i \in DOMAIN s}

\* a document that is one link [text](url), and its two parts
IsLinkOnly(d) ==
    /\ Len(d) >= 6
    /\ d[1] = "["
    /\ d[Len(d)] = ")"
    /\ Find(d, "]", 1) > 2
    /\ Find(d, "]", 1) + 2 < Len(d)
    /\ d[Find(d, "]", 1) + 1] = "("

TextOfLink(d) == SubSeq(d, 2, Find(d, "]", 1) - 1)

UrlOfLink(d) == SubSeq(d, Find(d, "]", 1) + 2, Len(d) - 1)

\* C8: for an input that is a link [text](url) the output of read_markdown
\* contains the link text unchanged, and neither the url nor the bracket
\* and parenthesis syntax.
C8_LinkKeepsTextDropsUrl ==
    (inputFile # None /\ IsLinkOnly(Get(inputFile)) /\ text # None) =>
        /\ Contains(Get(text), TextOfLink(Get(inputFile)))
        /\ ~Contains(Get(text), UrlOfLink(Get(inputFile)))
        /\ ~HasCharOf(Get(text), {"[", "]", "(", ")"})

\* a document that is one image reference ![alt](url)
IsImageOnly(d) == Len(d) >= 7 /\ d[1] = "!" /\ IsLinkOnly(Tail(d))

\* C9: for an input that is an image reference ![alt](url) the output of
\* read_markdown contains neither the image markup nor any remnant of the
\* url.
C9_ImageLeavesNothing ==
    (inputFile # None /\ IsImageOnly(Get(inputFile)) /\ text # None) =>
        ~HasCharOf(Get(text),
                   {"!", "[", "]", "(", ")"}
                       \cup Chars(UrlOfLink(Tail(Get(inputFile)))))

\* the inverse of markup escaping: an entity stands for its character
RECURSIVE Decode(_)
Decode(s) ==
    IF s = <<>> THEN <<>>
    ELSE IF StartsWith(s, <<"&", "a", "m", "p", ";">>)
         THEN <<"&">> \o Decode(SubSeq(s, 6, Len(s)))
    ELSE IF StartsWith(s, <<"&", "l", "t", ";">>)
         THEN <<"<">> \o Decode(SubSeq(s, 5, Len(s)))
    ELSE IF StartsWith(s, <<"&", "g", "t", ";">>)
         THEN <<">">> \o Decode(SubSeq(s, 5, Len(s)))
    ELSE IF StartsWith(s, <<"&", "q", "u", "o", "t", ";">>)
         THEN <<DQuote>> \o Decode(SubSeq(s, 7, Len(s)))
    ELSE IF StartsWith(s, <<"&", "#", "x", "2", "7", ";">>)
         THEN <<"'">> \o Decode(SubSeq(s, 7, Len(s)))
    ELSE <<Head(s)>> \o Decode(Tail(s))

\* the value of the style attribute of express-as, as it is in the markup
StyleAttribute(m) ==
    LET a == Find(m, "<mstts:express-as style='", 1)
        z == Find(m, "'>", a + 1)
    IN  SubSeq(m, a + 1, z - 1)

\* C10: the markup of synthesize_sdk has a prosody element, wrapping the
\* lang element, if and only if the style is one of Cheerful, Excited,
\* Friendly, Enthusiastic, and the element then carries the preset's rate
\* and pitch (Cheerful: +8% and +5%); for any other style there is no
\* prosody element; the style is, markup-escaped, the style attribute of
\* express-as.
C10_ProsodyOnlyForPresets ==
    ssml # None =>
        LET m     == Get(ssml)
            style == Get(config).SPEECH_STYLE
            a     == Find(m, "<mstts:express-as style='", 1)
            z     == Find(m, "'>", a + 1)
            p     == Find(m, "<prosody rate='", 1)
            l     == Find(m, "<lang xml:lang='", 1)
            e     == Find(m, "</lang>", 1)
        IN  /\ a # 0 /\ z # 0 /\ l # 0 /\ e # 0
            /\ ~HasCharOf(StyleAttribute(m), {"<", ">", "'", DQuote})
            /\ Decode(StyleAttribute(m)) = style
            /\ p # 0 <=> style \in {Cheerful, Excited, Friendly, Enthusiastic}
            /\ IF p # 0
               THEN /\ p = z + 1
                    /\ l = p + 5
                    /\ m[p + 2] = "' pitch='"
                    /\ m[p + 4] = "'>"
                    /\ m[e + 1] = "</prosody>"
                    /\ m[p + 1] = PROSODY_PRESETS[style].rate
                    /\ m[p + 3] = PROSODY_PRESETS[style].pitch
                    /\ style = Cheerful => m[p + 1] = "+8%" /\ m[p + 3] = "+5%"
                    /\ style = Excited => m[p + 1] = "+12%" /\ m[p + 3] = "+8%"
               ELSE /\ l = z + 1
                    /\ Find(m, "</prosody>", 1) = 0
                    /\ m[e + 1] = "</mstts:express-as>"

\* the markup built for the default style, Cheerful, with its prosody element
C10_Witness ==
    /\ ssml # None
    /\ Get(config).SPEECH_STYLE = Cheerful
    /\ Find(Get(ssml), "<prosody rate='", 1) # 0

====
